---- MODULE Spec2Model ----
(***************************************************************************)
(* Model of gea/geohash.py: geohash encoding, cell bounds, adjacency and   *)
(* the eight-neighbour aggregation.                                        *)
(*                                                                         *)
(* A Python string is a sequence of one-character strings.  A call either  *)
(* returns a value or raises: [ok |-> TRUE, val |-> v] or                  *)
(* [ok |-> FALSE, val |-> <exception name>].                               *)
(*                                                                         *)
(* Degrees are integers in units of 1/Unit degree.  Every value the model  *)
(* computes (range ends, bisection midpoints, grid coordinates) is a       *)
(* multiple of 45/2^k degrees with k <= UnitBits, which a 64-bit float     *)
(* holds exactly, so the integer arithmetic is the float arithmetic.       *)
(***************************************************************************)
EXTENDS Integers, Sequences, FiniteSets

VARIABLES op, geohash, direction, loc, precision, result, stack

vars == <<op, geohash, direction, loc, precision, result, stack>>

-----------------------------------------------------------------------------
(* Bounds of the model *)

\* longest geohash given to bounds / adjacent / neighbour(s)
MaxLen == 2
\* largest precision given to geohash_encode
MaxPrecision == 2
\* input coordinates lie on a grid of 2^GridBits steps per axis
GridBits == 6

Max(a, b) == IF a >= b THEN a ELSE b

UnitBits == Max(GridBits, 3 * Max(MaxLen, MaxPrecision))
Unit == 2 ^ UnitBits

-----------------------------------------------------------------------------
(* Results of a call *)

Ok(v) == [ok |-> TRUE, val |-> v]
Raise(e) == [ok |-> FALSE, val |-> e]
None == [ok |-> TRUE, val |-> "None"]

-----------------------------------------------------------------------------
(* Module-level tables *)

base32 ==
    <<"0", "1", "2", "3", "4", "5", "6", "7", "8", "9", "b", "c", "d", "e", "f", "g",
      "h", "j", "k", "m", "n", "p", "q", "r", "s", "t", "u", "v", "w", "x", "y", "z">>

Alphabet == {base32[i] : i \in 1..Len(base32)}

\* __decodemap[base32[i]] = i  (0-based values)
decodemap == [c \in Alphabet |-> (CHOOSE i \in 1..Len(base32) : base32[i] = c) - 1]

\* indexed [direction][ttype + 1]
neighbour ==
    [ n |-> <<<<"p", "0", "r", "2", "1", "4", "3", "6", "x", "8", "z", "b", "9", "d", "c", "f", "5", "h", "7", "k", "j", "n", "m", "q", "e", "s", "g", "u", "t", "w", "v", "y">>,
             <<"b", "c", "0", "1", "f", "g", "4", "5", "2", "3", "8", "9", "6", "7", "d", "e", "u", "v", "h", "j", "y", "z", "n", "p", "k", "m", "s", "t", "q", "r", "w", "x">>>>,
      s |-> <<<<"1", "4", "3", "6", "5", "h", "7", "k", "9", "d", "c", "f", "e", "s", "g", "u", "j", "n", "m", "q", "p", "0", "r", "2", "t", "w", "v", "y", "x", "8", "z", "b">>,
             <<"2", "3", "8", "9", "6", "7", "d", "e", "b", "c", "0", "1", "f", "g", "4", "5", "k", "m", "s", "t", "q", "r", "w", "x", "u", "v", "h", "j", "y", "z", "n", "p">>>>,
      e |-> <<<<"b", "c", "0", "1", "f", "g", "4", "5", "2", "3", "8", "9", "6", "7", "d", "e", "u", "v", "h", "j", "y", "z", "n", "p", "k", "m", "s", "t", "q", "r", "w", "x">>,
             <<"p", "0", "r", "2", "1", "4", "3", "6", "x", "8", "z", "b", "9", "d", "c", "f", "5", "h", "7", "k", "j", "n", "m", "q", "e", "s", "g", "u", "t", "w", "v", "y">>>>,
      w |-> <<<<"2", "3", "8", "9", "6", "7", "d", "e", "b", "c", "0", "1", "f", "g", "4", "5", "k", "m", "s", "t", "q", "r", "w", "x", "u", "v", "h", "j", "y", "z", "n", "p">>,
             <<"1", "4", "3", "6", "5", "h", "7", "k", "9", "d", "c", "f", "e", "s", "g", "u", "j", "n", "m", "q", "p", "0", "r", "2", "t", "w", "v", "y", "x", "8", "z", "b">>>> ]

border ==
    [ n |-> <<<<"p", "r", "x", "z">>,
             <<"b", "c", "f", "g", "u", "v", "y", "z">>>>,
      s |-> <<<<"0", "2", "8", "b">>,
             <<"0", "1", "4", "5", "h", "j", "n", "p">>>>,
      e |-> <<<<"b", "c", "f", "g", "u", "v", "y", "z">>,
             <<"p", "r", "x", "z">>>>,
      w |-> <<<<"0", "1", "4", "5", "h", "j", "n", "p">>,
             <<"0", "2", "8", "b">>>> ]

-----------------------------------------------------------------------------
(* Python string primitives *)

\* the upper-case ASCII letters and, at the same positions, their lower-case forms
UpperLetters ==
    <<"A", "B", "C", "D", "E", "F", "G", "H", "I", "J", "K", "L", "M",
      "N", "O", "P", "Q", "R", "S", "T", "U", "V", "W", "X", "Y", "Z">>
LowerLetters ==
    <<"a", "b", "c", "d", "e", "f", "g", "h", "i", "j", "k", "l", "m",
      "n", "o", "p", "q", "r", "s", "t", "u", "v", "w", "x", "y", "z">>

\* str.lower() as a map of the characters it changes (ASCII)
LowerMap ==
    [c \in {UpperLetters[i] : i \in 1..Len(UpperLetters)} |->
        LowerLetters[CHOOSE i \in 1..Len(UpperLetters) : UpperLetters[i] = c]]

\* str.lower() on one ASCII character: an upper-case letter becomes its
\* lower-case form, every other character stays
LowerCh(c) == IF c \in DOMAIN LowerMap THEN LowerMap[c] ELSE c

Lower(str) == [i \in 1..Len(str) |-> LowerCh(str[i])]

\* str.index(ch): 0-based position of the first occurrence; -1 stands for the
\* ValueError that str.index raises when ch does not occur
Index(str, ch) ==
    IF \E i \in 1..Len(str) : str[i] = ch
    THEN (CHOOSE i \in 1..Len(str) : str[i] = ch /\ \A j \in 1..(i - 1) : str[j] # ch) - 1
    ELSE -1

\* ch in str, for a one-character ch
Contains(str, ch) == \E i \in 1..Len(str) : str[i] = ch

nsew == <<"n", "s", "e", "w">>

-----------------------------------------------------------------------------
(* geohash_adjacent *)

\* mutant: the border entry of the other parity is consulted
BorderHit_OtherParity(d, ttype, last_ch, parent) ==
    LET i == Index(border[d][(1 - ttype) + 1], last_ch)
    IN  i # -1 /\ i # 0 /\ parent # <<>>

\* mutant: the test  parent != ''  is left out
BorderHit_NoParentTest(d, ttype, last_ch, parent) ==
    LET i == Index(border[d][ttype + 1], last_ch)
    IN  i # -1 /\ i # 0

\* the truth value of  __border[direction][ttype].index(last_ch) and parent != '':
\* index raising ValueError is caught by the except clause (no recursion), and an
\* index of 0 is falsy in Python (no recursion either)
BorderHit(d, ttype, last_ch, parent) ==
    LET i == Index(border[d][ttype + 1], last_ch)
    IN  i # -1 /\ i # 0 /\ parent # <<>>

RECURSIVE geohash_adjacent(_, _)
geohash_adjacent(gh, dir) ==
    IF Len(gh) = 0 THEN Raise("ValueError")
    ELSE IF Len(dir) # 1 THEN Raise("ValueError")
    ELSE LET d == LowerCh(dir[1]) IN
    IF ~Contains(nsew, d) THEN Raise("ValueError")
    ELSE
    LET g       == Lower(gh)
        last_ch == g[Len(g)]
        parent  == SubSeq(g, 1, Len(g) - 1)
        ttype   == Len(g) % 2
        \* try: ... parent = geohash_adjacent(parent, direction)
        \* except ValueError: pass     (a raise of the recursive call leaves parent as it was)
        rec     == geohash_adjacent(parent, <<d>>)
        parent2 == IF BorderHit(d, ttype, last_ch, parent)
                   THEN (IF rec.ok THEN rec.val ELSE parent)
                   ELSE parent
        ni      == Index(neighbour[d][ttype + 1], last_ch)
    IN  IF ni = -1 THEN Raise("ValueError")
        ELSE Ok(parent2 \o <<base32[ni + 1]>>)

-----------------------------------------------------------------------------
(* geohash_neighbour, geohash_neighbours *)

CompoundDirections ==
    {<<"n", "w">>, <<"n">>, <<"n", "e">>, <<"e">>, <<"w">>, <<"s", "w">>, <<"s">>, <<"s", "e">>}

\* mutant: the east/west step is applied first
AdjacentTwice_Swapped(gh, d1, d2) ==
    LET r == geohash_adjacent(gh, d2)
    IN  IF r.ok THEN geohash_adjacent(r.val, d1) ELSE r

\* f(g(...)): the inner call's exception propagates
AdjacentTwice(gh, d1, d2) ==
    LET r == geohash_adjacent(gh, d1)
    IN  IF r.ok THEN geohash_adjacent(r.val, d2) ELSE r

geohash_neighbour(gh, dir) ==
    IF Len(gh) = 0 THEN Raise("ValueError")
    ELSE IF Len(dir) # 1 /\ Len(dir) # 2 THEN Raise("ValueError")
    ELSE LET d == Lower(dir) IN
    IF d \notin CompoundDirections THEN Raise("ValueError")
    ELSE CASE d = <<"n", "w">> -> AdjacentTwice(gh, <<"n">>, <<"w">>)
           [] d = <<"n">>      -> geohash_adjacent(gh, <<"n">>)
           [] d = <<"n", "e">> -> AdjacentTwice(gh, <<"n">>, <<"e">>)
           [] d = <<"w">>      -> geohash_adjacent(gh, <<"w">>)
           [] d = <<"e">>      -> geohash_adjacent(gh, <<"e">>)
           [] d = <<"s", "w">> -> AdjacentTwice(gh, <<"s">>, <<"w">>)
           [] d = <<"s">>      -> geohash_adjacent(gh, <<"s">>)
           [] d = <<"s", "e">> -> AdjacentTwice(gh, <<"s">>, <<"e">>)

\* mutant: the key 'sw' is written twice, the second time for the se value
geohash_neighbours_SevenKeys(gh) ==
    LET r == [ nw |-> geohash_neighbour(gh, <<"n", "w">>),
               n  |-> geohash_neighbour(gh, <<"n">>),
               ne |-> geohash_neighbour(gh, <<"n", "e">>),
               w  |-> geohash_neighbour(gh, <<"w">>),
               e  |-> geohash_neighbour(gh, <<"e">>),
               s  |-> geohash_neighbour(gh, <<"s">>),
               sw |-> geohash_neighbour(gh, <<"s", "e">>) ]
    IN  IF \A k \in DOMAIN r : r[k].ok /\ geohash_neighbour(gh, <<"s", "w">>).ok
        THEN Ok([k \in DOMAIN r |-> r[k].val])
        ELSE Raise("ValueError")

\* the dict literal evaluates its eight values in order; the first raise ends it
geohash_neighbours(gh) ==
    LET r == [ nw |-> geohash_neighbour(gh, <<"n", "w">>),
               n  |-> geohash_neighbour(gh, <<"n">>),
               ne |-> geohash_neighbour(gh, <<"n", "e">>),
               w  |-> geohash_neighbour(gh, <<"w">>),
               e  |-> geohash_neighbour(gh, <<"e">>),
               sw |-> geohash_neighbour(gh, <<"s", "w">>),
               s  |-> geohash_neighbour(gh, <<"s">>),
               se |-> geohash_neighbour(gh, <<"s", "e">>) ]
    IN  IF \A k \in DOMAIN r : r[k].ok
        THEN Ok([k \in DOMAIN r |-> r[k].val])
        ELSE Raise("ValueError")

-----------------------------------------------------------------------------
(* Bisection ranges shared by geohash_encode and geohash_bounds *)

LatMin == -90 * Unit
LatMax == 90 * Unit
LonMin == -180 * Unit
LonMax == 180 * Unit

\* (a + b) / 2.0, exact on the values the model reaches
Mid(a, b) == (a + b) \div 2

-----------------------------------------------------------------------------
(* geohash_bounds *)

\* mutant: idx >> (nn & 1) in place of (idx >> nn) & 1
BoundsBit_Precedence(st, idx, nn) ==
    LET bit_n == idx \div (2 ^ (nn % 2))
    IN  IF st.even_bit
        THEN LET lon_mid == Mid(st.lon_min, st.lon_max)
             IN  IF bit_n = 1
                 THEN [st EXCEPT !.lon_min = lon_mid, !.even_bit = ~st.even_bit]
                 ELSE [st EXCEPT !.lon_max = lon_mid, !.even_bit = ~st.even_bit]
        ELSE LET lat_mid == Mid(st.lat_min, st.lat_max)
             IN  IF bit_n = 1
                 THEN [st EXCEPT !.lat_min = lat_mid, !.even_bit = ~st.even_bit]
                 ELSE [st EXCEPT !.lat_max = lat_mid, !.even_bit = ~st.even_bit]

\* one pass of the inner loop body: bit nn of idx narrows the active axis
BoundsBit(st, idx, nn) ==
    LET bit_n == (idx \div (2 ^ nn)) % 2
    IN  IF st.even_bit
        THEN LET lon_mid == Mid(st.lon_min, st.lon_max)
             IN  IF bit_n = 1
                 THEN [st EXCEPT !.lon_min = lon_mid, !.even_bit = ~st.even_bit]
                 ELSE [st EXCEPT !.lon_max = lon_mid, !.even_bit = ~st.even_bit]
        ELSE LET lat_mid == Mid(st.lat_min, st.lat_max)
             IN  IF bit_n = 1
                 THEN [st EXCEPT !.lat_min = lat_mid, !.even_bit = ~st.even_bit]
                 ELSE [st EXCEPT !.lat_max = lat_mid, !.even_bit = ~st.even_bit]

\* for nn in range(4, -1, -1)
RECURSIVE BoundsChar(_, _, _)
BoundsChar(st, idx, nn) ==
    IF nn < 0 THEN st
    ELSE BoundsChar(BoundsBit(st, idx, nn), idx, nn - 1)

RECURSIVE BoundsLoop(_, _, _)

\* mutant: a character missing from the decode map is passed over
BoundsLoop_SkipUnknown(g, i, st) ==
    IF i > Len(g)
    THEN Ok([sw |-> [lat |-> st.lat_min, lon |-> st.lon_min],
             ne |-> [lat |-> st.lat_max, lon |-> st.lon_max]])
    ELSE IF g[i] \notin DOMAIN decodemap THEN BoundsLoop(g, i + 1, st)
    ELSE LET idx == decodemap[g[i]]
         IN  IF idx = -1 THEN Raise("Exception")
             ELSE BoundsLoop(g, i + 1, BoundsChar(st, idx, 4))

\* for i in range(len(geohash)), from character i (1-based) on
BoundsLoop(g, i, st) ==
    IF i > Len(g)
    THEN Ok([sw |-> [lat |-> st.lat_min, lon |-> st.lon_min],
             ne |-> [lat |-> st.lat_max, lon |-> st.lon_max]])
    ELSE IF g[i] \notin DOMAIN decodemap THEN Raise("KeyError")
    ELSE LET idx == decodemap[g[i]]
         IN  IF idx = -1 THEN Raise("Exception")
             ELSE BoundsLoop(g, i + 1, BoundsChar(st, idx, 4))

\* mutant: the first bit narrows the latitude
geohash_bounds_LatFirst(gh) ==
    IF Len(gh) = 0 THEN Raise("ValueError")
    ELSE BoundsLoop(Lower(gh), 1,
                    [even_bit |-> FALSE, lat_min |-> LatMin, lat_max |-> LatMax,
                     lon_min |-> LonMin, lon_max |-> LonMax])

geohash_bounds(gh) ==
    IF Len(gh) = 0 THEN Raise("ValueError")
    ELSE BoundsLoop(Lower(gh), 1,
                    [even_bit |-> TRUE, lat_min |-> LatMin, lat_max |-> LatMax,
                     lon_min |-> LonMin, lon_max |-> LonMax])

-----------------------------------------------------------------------------
(* geohash_encode *)

\* mutant: the new character is put in front of the geohash
EncodeBit_Prepend(st, lat, lon) ==
    LET bis ==
            IF st.even_bit
            THEN LET lon_mid == Mid(st.lon_min, st.lon_max)
                 IN  IF lon >= lon_mid
                     THEN [st EXCEPT !.idx = 2 * st.idx + 1, !.lon_min = lon_mid]
                     ELSE [st EXCEPT !.idx = 2 * st.idx, !.lon_max = lon_mid]
            ELSE LET lat_mid == Mid(st.lat_min, st.lat_max)
                 IN  IF lat >= lat_mid
                     THEN [st EXCEPT !.idx = 2 * st.idx + 1, !.lat_min = lat_mid]
                     ELSE [st EXCEPT !.idx = 2 * st.idx, !.lat_max = lat_mid]
        adv == [bis EXCEPT !.even_bit = ~st.even_bit, !.bit = st.bit + 1]
    IN  IF adv.bit = 5
        THEN [adv EXCEPT !.geohash = <<base32[adv.idx + 1]>> \o adv.geohash,
                         !.bit = 0, !.idx = 0]
        ELSE adv

\* one pass of the while body
EncodeBit(st, lat, lon) ==
    LET bis ==
            IF st.even_bit
            THEN LET lon_mid == Mid(st.lon_min, st.lon_max)
                 IN  IF lon >= lon_mid
                     THEN [st EXCEPT !.idx = 2 * st.idx + 1, !.lon_min = lon_mid]
                     ELSE [st EXCEPT !.idx = 2 * st.idx, !.lon_max = lon_mid]
            ELSE LET lat_mid == Mid(st.lat_min, st.lat_max)
                 IN  IF lat >= lat_mid
                     THEN [st EXCEPT !.idx = 2 * st.idx + 1, !.lat_min = lat_mid]
                     ELSE [st EXCEPT !.idx = 2 * st.idx, !.lat_max = lat_mid]
        adv == [bis EXCEPT !.even_bit = ~st.even_bit, !.bit = st.bit + 1]
    IN  IF adv.bit = 5
        THEN [adv EXCEPT !.geohash = Append(adv.geohash, base32[adv.idx + 1]),
                         !.bit = 0, !.idx = 0]
        ELSE adv

RECURSIVE EncodeLoop(_, _, _, _)

\* mutant: while len(geohash) <= precision
EncodeLoop_OffByOne(st, lat, lon, prec) ==
    IF Len(st.geohash) <= prec
    THEN EncodeLoop(EncodeBit(st, lat, lon), lat, lon, prec)
    ELSE st

\* while len(geohash) < precision
EncodeLoop(st, lat, lon, prec) ==
    IF Len(st.geohash) < prec
    THEN EncodeLoop(EncodeBit(st, lat, lon), lat, lon, prec)
    ELSE st

geohash_encode(l, prec) ==
    IF l.lat < LatMin \/ l.lat > LatMax THEN Raise("ValueError")
    ELSE IF l.lon < LonMin \/ l.lon > LonMax THEN Raise("ValueError")
    ELSE Ok(EncodeLoop([idx |-> 0, bit |-> 0, even_bit |-> TRUE, geohash |-> <<>>,
                        lat_min |-> LatMin, lat_max |-> LatMax,
                        lon_min |-> LonMin, lon_max |-> LonMax],
                       l.lat, l.lon, prec).geohash)

-----------------------------------------------------------------------------
(* Inputs *)

\* characters of input geohashes: the alphabet, one character outside it ("a")
\* and one upper-case letter of it ("B")
InputChars == Alphabet \cup {"a", "B"}

RECURSIVE StringsOfLen(_, _)
StringsOfLen(S, n) ==
    IF n = 0 THEN {<<>>}
    ELSE {Append(s, c) : s \in StringsOfLen(S, n - 1), c \in S}

Geohashes == UNION {StringsOfLen(InputChars, n) : n \in 0..MaxLen}

\* directions given to geohash_adjacent: the four codes, an upper-case one, an
\* unknown one and one of the wrong length
AdjDirections == {<<"n">>, <<"s">>, <<"e">>, <<"w">>, <<"N">>, <<"x">>, <<"n", "w">>}

\* directions given to geohash_neighbour
NbDirections == CompoundDirections \cup {<<"S", "E">>, <<"x">>, <<"n", "w", "x">>}

\* input coordinates: a grid of 2^GridBits steps over each axis' range, and one
\* step beyond each end
GridSteps == 2 ^ GridBits
Lats == {LatMin + i * ((LatMax - LatMin) \div GridSteps) : i \in (-1)..(GridSteps + 1)}
Lons == {LonMin + i * ((LonMax - LonMin) \div GridSteps) : i \in (-1)..(GridSteps + 1)}

Precisions == (-1)..MaxPrecision

NoLoc == [lat |-> 0, lon |-> 0]

-----------------------------------------------------------------------------
(* The geohash operations as a state machine: an input geohash is fixed by   *)
(* Init, and each action is one call on it.                                  *)

Init ==
    /\ op = "init"
    /\ geohash \in Geohashes
    /\ direction = <<>>
    /\ loc = NoLoc
    /\ precision = 0
    /\ result = None
    /\ stack = <<>>

Adjacent(d) ==
    /\ op = "init"
    /\ op' = "adjacent"
    /\ direction' = d
    /\ result' = geohash_adjacent(geohash, d)
    /\ UNCHANGED <<geohash, loc, precision, stack>>

Neighbour(d) ==
    /\ op = "init"
    /\ op' = "neighbour"
    /\ direction' = d
    /\ result' = geohash_neighbour(geohash, d)
    /\ UNCHANGED <<geohash, loc, precision, stack>>

Neighbours ==
    /\ op = "init"
    /\ op' = "neighbours"
    /\ result' = geohash_neighbours(geohash)
    /\ UNCHANGED <<geohash, direction, loc, precision, stack>>

Bounds ==
    /\ op = "init"
    /\ op' = "bounds"
    /\ result' = geohash_bounds(geohash)
    /\ UNCHANGED <<geohash, direction, loc, precision, stack>>

Next ==
    \/ \E d \in AdjDirections : Adjacent(d)
    \/ \E d \in NbDirections : Neighbour(d)
    \/ Neighbours
    \/ Bounds

Spec == Init /\ [][Next]_vars

-----------------------------------------------------------------------------
(* The encoder as a state machine: a coordinate and a precision are fixed by *)
(* InitEnc; Encode is the call, and EncodedBounds the call of geohash_bounds *)
(* on the geohash it returned.                                               *)

InitEnc ==
    /\ op = "init"
    /\ geohash = <<>>
    /\ direction = <<>>
    /\ loc \in [lat : Lats, lon : Lons]
    /\ precision \in Precisions
    /\ result = None
    /\ stack = <<>>

Encode ==
    /\ op = "init"
    /\ op' = "encode"
    /\ result' = geohash_encode(loc, precision)
    /\ geohash' = IF result'.ok THEN result'.val ELSE geohash
    /\ UNCHANGED <<direction, loc, precision, stack>>

EncodedBounds ==
    /\ op = "encode"
    /\ result.ok
    /\ op' = "bounds"
    /\ result' = geohash_bounds(geohash)
    /\ UNCHANGED <<geohash, direction, loc, precision, stack>>

NextEnc ==
    \/ Encode
    \/ EncodedBounds

SpecEnc == InitEnc /\ [][NextEnc]_vars

-----------------------------------------------------------------------------
(* geohash_adjacent call by call: stack holds one frame per call that has    *)
(* been entered and has not returned, the innermost last.  A frame is the    *)
(* call's arguments g and d, its local parent and its position pc:           *)
(* "entry" before the argument checks, "wait" inside the recursive call of   *)
(* line 202, "finish" before the return of line 206.                         *)

CallDirections == {<<"n">>, <<"s">>, <<"e">>, <<"w">>, <<"N">>, <<"x">>}

Top == stack[Len(stack)]
Callers == SubSeq(stack, 1, Len(stack) - 1)

\* the argument checks of lines 180-191 pass
ArgsAccepted(f) ==
    /\ Len(f.g) # 0
    /\ Len(f.d) = 1
    /\ Contains(nsew, LowerCh(f.d[1]))

\* the call that returns (or raises) ret leaves the stack: the outermost call
\* hands ret to the program, an inner one to the try block of its caller,
\* where a ValueError is passed over and parent keeps its value
Deliver(ret) ==
    IF Len(stack) = 1
    THEN /\ op' = "adjacent"
         /\ result' = ret
         /\ stack' = <<>>
    ELSE /\ stack' = [Callers EXCEPT ![Len(stack) - 1] =
                         [@ EXCEPT !.parent = IF ret.ok THEN ret.val ELSE @,
                                   !.pc = "finish"]]
         /\ UNCHANGED <<op, result>>

CallAdjacent(d) ==
    /\ op = "init"
    /\ op' = "calling"
    /\ direction' = d
    /\ stack' = <<[g |-> geohash, d |-> d, parent |-> <<>>, pc |-> "entry"]>>
    /\ UNCHANGED <<geohash, loc, precision, result>>

\* lines 180-191: raise ValueError
Reject ==
    /\ op = "calling"
    /\ Top.pc = "entry"
    /\ ~ArgsAccepted(Top)
    /\ Deliver(Raise("ValueError"))
    /\ UNCHANGED <<geohash, direction, loc, precision>>

\* lines 193-202, the border test true: the recursive call is entered
Descend ==
    /\ op = "calling"
    /\ Top.pc = "entry"
    /\ ArgsAccepted(Top)
    /\ LET g      == Lower(Top.g)
           d      == LowerCh(Top.d[1])
           parent == SubSeq(g, 1, Len(g) - 1)
       IN  /\ BorderHit(d, Len(g) % 2, g[Len(g)], parent)
           /\ stack' = Append([stack EXCEPT ![Len(stack)] =
                                  [g |-> g, d |-> <<d>>, parent |-> parent, pc |-> "wait"]],
                              [g |-> parent, d |-> <<d>>, parent |-> <<>>, pc |-> "entry"])
    /\ UNCHANGED <<op, geohash, direction, loc, precision, result>>

\* lines 193-204, the border test false or its index raising: no recursive call
Stay ==
    /\ op = "calling"
    /\ Top.pc = "entry"
    /\ ArgsAccepted(Top)
    /\ LET g      == Lower(Top.g)
           d      == LowerCh(Top.d[1])
           parent == SubSeq(g, 1, Len(g) - 1)
       IN  /\ ~BorderHit(d, Len(g) % 2, g[Len(g)], parent)
           /\ stack' = [stack EXCEPT ![Len(stack)] =
                           [g |-> g, d |-> <<d>>, parent |-> parent, pc |-> "finish"]]
    /\ UNCHANGED <<op, geohash, direction, loc, precision, result>>

\* line 206
Return ==
    /\ op = "calling"
    /\ Top.pc = "finish"
    /\ LET g  == Top.g
           ni == Index(neighbour[Top.d[1]][(Len(g) % 2) + 1], g[Len(g)])
       IN  Deliver(IF ni = -1 THEN Raise("ValueError")
                   ELSE Ok(Top.parent \o <<base32[ni + 1]>>))
    /\ UNCHANGED <<geohash, direction, loc, precision>>

NextCall ==
    \/ \E d \in CallDirections : CallAdjacent(d)
    \/ Reject
    \/ Descend
    \/ Stay
    \/ Return

\* the interpreter runs a call that was started to its end
SpecCall == Init /\ [][NextCall]_vars /\ WF_vars(NextCall)

-----------------------------------------------------------------------------
(* Vocabulary of the properties *)

\* a non-empty string over the 32-symbol alphabet
ValidGeohash(g) == Len(g) >= 1 /\ \A i \in 1..Len(g) : g[i] \in Alphabet

CardinalDirections == {<<"n">>, <<"s">>, <<"e">>, <<"w">>}

Opposite(d) ==
    CASE d = <<"n">> -> <<"s">>
      [] d = <<"s">> -> <<"n">>
      [] d = <<"e">> -> <<"w">>
      [] d = <<"w">> -> <<"e">>

\* the cell of a valid geohash
Cell(g) == geohash_bounds(g).val

\* the cell lies on the outer edge of the globe on its side d
OnOuterEdge(g, d) ==
    CASE d = <<"n">> -> Cell(g).ne.lat = LatMax
      [] d = <<"s">> -> Cell(g).sw.lat = LatMin
      [] d = <<"e">> -> Cell(g).ne.lon = LonMax
      [] d = <<"w">> -> Cell(g).sw.lon = LonMin

\* neither on a pole row nor on the antimeridian column
Interior(g) == \A d \in CardinalDirections : ~OnOuterEdge(g, d)

SameLonRange(a, b) == a.sw.lon = b.sw.lon /\ a.ne.lon = b.ne.lon
SameLatRange(a, b) == a.sw.lat = b.sw.lat /\ a.ne.lat = b.ne.lat

\* cell r touches cell h on h's side d
Touches(h, r, d) ==
    CASE d = <<"n">> -> r.sw.lat = h.ne.lat /\ SameLonRange(r, h)
      [] d = <<"s">> -> r.ne.lat = h.sw.lat /\ SameLonRange(r, h)
      [] d = <<"e">> -> r.sw.lon = h.ne.lon /\ SameLatRange(r, h)
      [] d = <<"w">> -> r.ne.lon = h.sw.lon /\ SameLatRange(r, h)

\* the state after geohash_adjacent(geohash, direction) on a valid geohash and a
\* lower-case cardinal direction
AdjacentCalled ==
    op = "adjacent" /\ ValidGeohash(geohash) /\ direction \in CardinalDirections

Last(g) == g[Len(g)]
Front(g) == SubSeq(g, 1, Len(g) - 1)

\* last character of g is in the border-table entry for (d, parity of g)
InBorderEntry(g, d) == Contains(border[d[1]][(Len(g) % 2) + 1], Last(g))

-----------------------------------------------------------------------------
(* C1: for a valid geohash whose cell is not on the globe's outer edge in    *)
(* direction d, geohash_adjacent returns the geohash of the same length      *)
(* whose cell touches the input's cell on side d.                            *)
(* The code does not do this: see C1_FirstBorderChar for the failing case.   *)

C1_AdjacentTouches ==
    (AdjacentCalled /\ ~OnOuterEdge(geohash, direction))
        => /\ result.ok
           /\ Len(result.val) = Len(geohash)
           /\ Touches(Cell(geohash), Cell(result.val), direction)

\* the failing case is reachable: the last character is the first character of
\* the border entry and the parent prefix came back unchanged
C1_FirstBorderChar ==
    /\ AdjacentCalled
    /\ ~OnOuterEdge(geohash, direction)
    /\ Len(geohash) >= 2
    /\ Index(border[direction[1]][(Len(geohash) % 2) + 1], Last(geohash)) = 0
    /\ result.ok
    /\ Front(result.val) = Front(geohash)

-----------------------------------------------------------------------------
(* C2: with a non-empty parent, if the last character is any character of    *)
(* the border entry for (d, parity), the first one included, the result's    *)
(* prefix is geohash_adjacent(parent, d); otherwise it is parent unchanged.  *)
(* The code leaves the parent unchanged for the entry's first character.     *)

C2_BorderRipples ==
    (AdjacentCalled /\ Len(geohash) >= 2)
        => /\ result.ok
           /\ IF InBorderEntry(geohash, direction)
              THEN Front(result.val) = geohash_adjacent(Front(geohash), direction).val
              ELSE Front(result.val) = Front(geohash)

-----------------------------------------------------------------------------
(* C3: on an interior cell, a step in a cardinal direction followed by a     *)
(* step in the opposite direction returns the geohash it started from.       *)

C3_LocalInverse ==
    (AdjacentCalled /\ Interior(geohash))
        => /\ result.ok
           /\ geohash_adjacent(result.val, Opposite(direction)) = Ok(geohash)

\* an interior cell whose step crossed into another parent cell and came back
C3_Witness ==
    /\ AdjacentCalled
    /\ Interior(geohash)
    /\ Len(geohash) >= 2
    /\ result.ok
    /\ Front(result.val) # Front(geohash)
    /\ geohash_adjacent(result.val, Opposite(direction)) = Ok(geohash)

-----------------------------------------------------------------------------
(* Vocabulary of the encoder's properties *)

ValidLoc(l) ==
    /\ LatMin <= l.lat /\ l.lat <= LatMax
    /\ LonMin <= l.lon /\ l.lon <= LonMax

BoxContains(b, l) ==
    /\ b.sw.lat <= l.lat /\ l.lat <= b.ne.lat
    /\ b.sw.lon <= l.lon /\ l.lon <= b.ne.lon

\* box a lies within box b
BoxWithin(a, b) ==
    /\ b.sw.lat <= a.sw.lat /\ a.ne.lat <= b.ne.lat
    /\ b.sw.lon <= a.sw.lon /\ a.ne.lon <= b.ne.lon

IsPrefix(a, b) == Len(a) <= Len(b) /\ SubSeq(b, 1, Len(a)) = a

-----------------------------------------------------------------------------
(* C4: for a valid coordinate and a precision >= 1, the box that             *)
(* geohash_bounds returns for the encoded geohash contains the coordinate.   *)

C4_BoundsContainCoordinate ==
    (op = "bounds" /\ ValidLoc(loc) /\ precision >= 1)
        => result.ok /\ BoxContains(result.val, loc)

\* a coordinate at the north end of the latitude range and on the first
\* longitude midpoint was encoded and its box computed
C4_Witness ==
    /\ op = "bounds"
    /\ precision >= 1
    /\ loc.lat = LatMax
    /\ loc.lon = Mid(LonMin, LonMax)
    /\ result.ok
    /\ BoxContains(result.val, loc)

-----------------------------------------------------------------------------
(* C5: for a valid coordinate and a precision p >= 1, geohash_encode returns *)
(* a string of exactly p characters, each of them in the alphabet.           *)

C5_EncodeLengthAndAlphabet ==
    (op = "encode" /\ ValidLoc(loc) /\ precision >= 1)
        => /\ result.ok
           /\ Len(result.val) = precision
           /\ \A i \in 1..Len(result.val) : result.val[i] \in Alphabet

C5_Witness ==
    /\ op = "encode"
    /\ ValidLoc(loc)
    /\ precision >= 2
    /\ result.ok
    /\ Len(result.val) = precision

-----------------------------------------------------------------------------
(* C6: for a valid coordinate and precisions 1 <= p <= q, the encoding at p  *)
(* is a prefix of the encoding at q and the cell at q lies within the cell   *)
(* at p; when p < q the cell at q is strictly smaller.                       *)

C6_PrefixAndNesting ==
    (op = "encode" /\ ValidLoc(loc) /\ precision >= 1)
        => \A p \in 1..precision :
              LET short == geohash_encode(loc, p)
              IN  /\ short.ok /\ result.ok
                  /\ IsPrefix(short.val, result.val)
                  /\ BoxWithin(Cell(result.val), Cell(short.val))
                  /\ p < precision => Cell(result.val) # Cell(short.val)

\* an encoding longer than one character, with a different second character
C6_Witness ==
    /\ op = "encode"
    /\ ValidLoc(loc)
    /\ precision >= 2
    /\ result.ok
    /\ result.val[1] # result.val[2]
    /\ IsPrefix(geohash_encode(loc, 1).val, result.val)

-----------------------------------------------------------------------------
(* C7: geohash_neighbour is geohash_adjacent for a cardinal direction and,   *)
(* for a diagonal, the north/south step followed by the east/west step;      *)
(* geohash_neighbours maps each of the 8 keys to geohash_neighbour's value.  *)

NeighbourByDefinition(g, d) ==
    IF Len(d) = 1 THEN geohash_adjacent(g, d)
    ELSE LET first == geohash_adjacent(g, <<d[1]>>)
         IN  geohash_adjacent(first.val, <<d[2]>>)

KeyDirection ==
    [ nw |-> <<"n", "w">>, n |-> <<"n">>, ne |-> <<"n", "e">>, w |-> <<"w">>,
      e |-> <<"e">>, sw |-> <<"s", "w">>, s |-> <<"s">>, se |-> <<"s", "e">> ]

C7_NeighbourComposition ==
    /\ (op = "neighbour" /\ ValidGeohash(geohash) /\ direction \in CompoundDirections)
          => result = NeighbourByDefinition(geohash, direction)
    /\ (op = "neighbours" /\ ValidGeohash(geohash))
          => /\ result.ok
             /\ \A k \in DOMAIN KeyDirection :
                   result.val[k] = NeighbourByDefinition(geohash, KeyDirection[k]).val

\* a diagonal neighbour for which the order of the two steps matters
C7_Witness ==
    /\ op = "neighbour"
    /\ ValidGeohash(geohash)
    /\ Len(direction) = 2
    /\ result.ok
    /\ result = NeighbourByDefinition(geohash, direction)
    /\ result # geohash_adjacent(geohash_adjacent(geohash, <<direction[2]>>).val, <<direction[1]>>)

-----------------------------------------------------------------------------
(* C8: for a non-empty geohash over the alphabet, pole rows, the antimeridian *)
(* column and length 1 included, geohash_neighbours returns a mapping with   *)
(* exactly the 8 keys, each to a string over the alphabet of the same length. *)

C8_NeighboursTotal ==
    (op = "neighbours" /\ ValidGeohash(geohash))
        => /\ result.ok
           /\ DOMAIN result.val = {"nw", "n", "ne", "w", "e", "sw", "s", "se"}
           /\ \A k \in DOMAIN result.val :
                 /\ Len(result.val[k]) = Len(geohash)
                 /\ ValidGeohash(result.val[k])

\* the neighbours of a cell in the corner of the globe (pole row and antimeridian)
C8_Witness ==
    /\ op = "neighbours"
    /\ ValidGeohash(geohash)
    /\ OnOuterEdge(geohash, <<"n">>)
    /\ OnOuterEdge(geohash, <<"e">>)
    /\ result.ok
    /\ \A k \in DOMAIN result.val : Len(result.val[k]) = Len(geohash)

-----------------------------------------------------------------------------
(* C9: geohash_encode with a valid coordinate and a precision < 1 fails and  *)
(* returns no geohash.  The code returns the empty string.                   *)

C9_PrecisionBelowOneFails ==
    (op = "encode" /\ ValidLoc(loc) /\ precision < 1) => ~result.ok

-----------------------------------------------------------------------------
(* C10: geohash_adjacent with a valid direction fails whenever any character *)
(* of the geohash, lower-cased, is outside the alphabet, at any position.    *)
(* The code checks the last character only and discards the ValueError of    *)
(* its recursive call.                                                       *)

HasInvalidChar(g) == \E i \in 1..Len(g) : LowerCh(g[i]) \notin Alphabet

C10_InvalidCharacterFails ==
    (op = "adjacent" /\ direction \in CardinalDirections /\ HasInvalidChar(geohash))
        => ~result.ok

-----------------------------------------------------------------------------
(* C11: geohash_bounds fails, returning no box, on the empty geohash and on  *)
(* a geohash with a character that, lower-cased, is outside the alphabet at  *)
(* any position; on every other geohash it returns a box.                    *)

C11_BoundsValidation ==
    op = "bounds"
        => (result.ok <=> (Len(geohash) >= 1 /\ ~HasInvalidChar(geohash)))

\* bounds was called on a geohash whose first character is invalid and whose
\* last character is valid, and it failed
C11_Witness ==
    /\ op = "bounds"
    /\ Len(geohash) >= 2
    /\ LowerCh(geohash[1]) \notin Alphabet
    /\ Last(geohash) \in Alphabet
    /\ ~result.ok

-----------------------------------------------------------------------------
(* C12: the box of a valid geohash of n characters is the grid cell found by *)
(* de-interleaving its 5n bits: even positions give the longitude index X    *)
(* over ceil(5n/2) bits, odd positions the latitude index Y over             *)
(* floor(5n/2) bits, and the box is the cell (X, Y) of that grid.            *)

\* bit at 0-based position k of the 5n bits, most significant bit of each
\* character first
BitAt(g, k) == (decodemap[g[(k \div 5) + 1]] \div (2 ^ (4 - (k % 5)))) % 2

\* the number read from the bits at positions start, start + 2, ... below 5n
RECURSIVE AxisIndex(_, _, _)
AxisIndex(g, k, acc) ==
    IF k >= 5 * Len(g) THEN acc
    ELSE AxisIndex(g, k + 2, 2 * acc + BitAt(g, k))

LonBits(g) == (5 * Len(g) + 1) \div 2
LatBits(g) == (5 * Len(g)) \div 2

GridCell(g) ==
    LET X  == AxisIndex(g, 0, 0)
        Y  == AxisIndex(g, 1, 0)
        dx == (360 * Unit) \div (2 ^ LonBits(g))
        dy == (180 * Unit) \div (2 ^ LatBits(g))
    IN  [sw |-> [lat |-> LatMin + Y * dy, lon |-> LonMin + X * dx],
         ne |-> [lat |-> LatMin + Y * dy + dy, lon |-> LonMin + X * dx + dx]]

C12_BoundsIsDeinterleavedCell ==
    (op = "bounds" /\ ValidGeohash(geohash))
        => /\ result.ok
           /\ result.val = GridCell(geohash)
           /\ (360 * Unit) % (2 ^ LonBits(geohash)) = 0
           /\ (180 * Unit) % (2 ^ LatBits(geohash)) = 0

\* a geohash of the longest length whose two indices differ and are not 0
C12_Witness ==
    /\ op = "bounds"
    /\ ValidGeohash(geohash)
    /\ Len(geohash) >= 2
    /\ AxisIndex(geohash, 0, 0) > 0
    /\ AxisIndex(geohash, 1, 0) > AxisIndex(geohash, 0, 0)
    /\ result = Ok(GridCell(geohash))

-----------------------------------------------------------------------------
(* C13: geohash_adjacent on a non-empty geohash and a valid direction        *)
(* terminates: each recursive call is made on a strictly shorter prefix of   *)
(* its caller's (lower-cased) argument, no call is made on the empty string, *)
(* and at most len(g) calls are nested.                                      *)

ValidCall ==
    /\ op = "calling"
    /\ Len(geohash) >= 1
    /\ Len(direction) = 1
    /\ Contains(nsew, LowerCh(direction[1]))

CallsShorten ==
    ValidCall
        => /\ \A i \in 1..Len(stack) : stack[i].g # <<>>
           /\ \A i \in 2..Len(stack) :
                 /\ Len(stack[i].g) < Len(stack[i - 1].g)
                 /\ IsPrefix(stack[i].g, Lower(stack[i - 1].g))
           /\ Len(stack) <= Len(geohash)

\* strictly smaller after every step of a call: the calls still to be entered
\* while descending, the calls still to return afterwards
StepsLeft ==
    CASE op = "init"                            -> 2 * Len(geohash) + 3
      [] op = "calling" /\ Top.pc = "entry"     -> 2 * Len(geohash) + 3 - Len(stack)
      [] op = "calling" /\ Top.pc # "entry"     -> Len(stack)
      [] OTHER                                  -> 0

\* a call that has not returned can take a step
CanStep == op = "calling" => ENABLED NextCall

\* no call is stuck and every step lowers StepsLeft, which is never negative:
\* the call returns after at most 2 * len(g) + 3 steps
C13_AdjacentTerminates ==
    /\ []CallsShorten
    /\ [](CanStep /\ StepsLeft >= 0)
    /\ [][StepsLeft' < StepsLeft]_vars

\* the same, said with the interpreter's fairness
CallReturns == (op = "calling") ~> (op = "adjacent")

\* as many calls are nested as the geohash has characters, more than one
C13_Witness ==
    /\ ValidCall
    /\ Len(geohash) >= 2
    /\ Len(stack) = Len(geohash)
    /\ Top.pc = "entry"

\* the calls, taken one by one, return what geohash_adjacent is defined to return
CallsAgreeWithDefinition ==
    (op = "adjacent" /\ stack = <<>>) => result = geohash_adjacent(geohash, direction)

-----------------------------------------------------------------------------
(* C14: encoding the exact centre of the box of a valid geohash h, or any    *)
(* coordinate strictly inside the box, with precision len(h) returns h.      *)

Centre(b) == [lat |-> Mid(b.sw.lat, b.ne.lat), lon |-> Mid(b.sw.lon, b.ne.lon)]

\* the centre and the coordinates one unit inside each edge and corner
StrictlyInside(b) ==
    [lat : {b.sw.lat + 1, Mid(b.sw.lat, b.ne.lat), b.ne.lat - 1},
     lon : {b.sw.lon + 1, Mid(b.sw.lon, b.ne.lon), b.ne.lon - 1}]

C14_EncodeInvertsBounds ==
    (op = "bounds" /\ ValidGeohash(geohash))
        => /\ result.ok
           /\ (result.val.sw.lat + result.val.ne.lat) % 2 = 0
           /\ (result.val.sw.lon + result.val.ne.lon) % 2 = 0
           /\ Centre(result.val) \in StrictlyInside(result.val)
           /\ \A c \in StrictlyInside(result.val) :
                 /\ result.val.sw.lat < c.lat /\ c.lat < result.val.ne.lat
                 /\ result.val.sw.lon < c.lon /\ c.lon < result.val.ne.lon
                 /\ geohash_encode(c, Len(geohash)) = Ok(geohash)

\* the centre of a cell of the longest geohashes, whose two characters differ,
\* encodes back to the geohash
C14_Witness ==
    /\ op = "bounds"
    /\ ValidGeohash(geohash)
    /\ Len(geohash) >= 2
    /\ geohash[1] # geohash[2]
    /\ result.ok
    /\ geohash_encode(Centre(result.val), Len(geohash)) = Ok(geohash)

-----------------------------------------------------------------------------
(* C15: on every valid geohash a north/south step commutes with an east/west *)
(* step, so a diagonal neighbour does not depend on which of its two steps   *)
(* is applied first.                                                         *)
(* The code does not do this: the step that ends on the first character of a *)
(* border entry leaves the parent as it is (see C1), the other order does    *)
(* not pass through that character.                                          *)

Vertical == {<<"n">>, <<"s">>}
Horizontal == {<<"e">>, <<"w">>}

C15_StepsCommute ==
    (AdjacentCalled /\ direction \in Vertical)
        => \A z \in Horizontal :
              geohash_adjacent(result.val, z)
                  = geohash_adjacent(geohash_adjacent(geohash, z).val, direction)

====
